---------------------------- MODULE Spec2Model ----------------------------
(***************************************************************************)
(* Model of the NBA highlights ingestion pipeline (src/src/scheduler.py):  *)
(* search per keyword, dedup by video_id, batched statistics lookup,       *)
(* view attachment and transactional upsert into the highlights table      *)
(* (src/src/database.py).                                                  *)
(***************************************************************************)
EXTENDS Integers, Sequences, FiniteSets, TLC

(***************************************************************************)
(* Bounds of the model and program constants.                              *)
(***************************************************************************)
\* number of search phrases in seeds/keywords.json
NumKeywords == 2
\* longest page a search returns (maxResults = RESULTS_PER_PAGE)
MaxPage == 2
\* largest id list handed to fetch_statistics on its own
MaxStatIds == 101
\* "The API allows up to 50 IDs per request"
ChunkSize == 50

\* the video ids the upstream may return to the pipeline
VideoIds == {"a", "b"}

keywords == [k \in 1..NumKeywords |-> k]

Min(a, b) == IF a < b THEN a ELSE b

(***************************************************************************)
(* Upstream search responses.  A timestamp string "YYYY-MM-DDTHH:MM:SSZ"   *)
(* is the tuple of its six numeric fields; any other tuple is a string     *)
(* strptime rejects.  The snippet a keyword returns for a video is tagged  *)
(* with the keyword, so two occurrences of a video under different         *)
(* keywords carry different metadata.                                      *)
(***************************************************************************)
RawItem(v, k) ==
    [id |-> [videoId |-> v],
     snippet |-> [title |-> <<"title", v, k>>,
                  channelTitle |-> <<"channel", k>>,
                  publishedAt |-> <<2024, 1, k, 12, 0, 0>>]]

BadItem(v, k) ==
    [id |-> [videoId |-> v],
     snippet |-> [title |-> <<"title", v, k>>,
                  channelTitle |-> <<"channel", k>>,
                  publishedAt |-> <<2024, 1, k>>]]

RECURSIVE SeqsUpTo(_, _)
SeqsUpTo(S, n) ==
    IF n = 0 THEN {<<>>}
    ELSE LET shorter == SeqsUpTo(S, n - 1)
         IN  shorter \cup {Append(s, x) : s \in shorter, x \in S}

Pages(k) ==
    SeqsUpTo({RawItem(v, k) : v \in VideoIds}, MaxPage)
        \cup {<<BadItem(v, k)>> : v \in {CHOOSE w \in VideoIds : TRUE}}

SearchResponses(k) ==
    {[kind |-> "HttpError", items |-> <<>>]}
        \cup {[kind |-> "ok", items |-> p] : p \in Pages(k)}

\* datetime.strptime(s, "%Y-%m-%dT%H:%M:%SZ")
Parseable(s) == Len(s) = 6

strptime(s) ==
    [year |-> s[1], month |-> s[2], day |-> s[3],
     hour |-> s[4], minute |-> s[5], second |-> s[6]]

\* search_videos: the list built from response["items"]
search_videos(items) ==
    [i \in 1..Len(items) |->
        [video_id |-> items[i].id.videoId,
         title |-> items[i].snippet.title,
         channel_title |-> items[i].snippet.channelTitle,
         published_at |-> strptime(items[i].snippet.publishedAt)]]

SearchRaisesValueError(items) ==
    \E i \in 1..Len(items) : ~Parseable(items[i].snippet.publishedAt)

(***************************************************************************)
(* Upstream statistics.  An entry says whether videos().list returns an    *)
(* item for the id and which viewCount string (a digit sequence; the       *)
(* empty sequence is an item without a viewCount key) it carries.          *)
(***************************************************************************)
StatEntries ==
    {[item |-> FALSE, viewCount |-> <<>>],
     [item |-> TRUE, viewCount |-> <<>>],
     [item |-> TRUE, viewCount |-> <<1, 0>>],
     [item |-> TRUE, viewCount |-> <<2, 5>>]}

\* int("...") of a decimal digit string
RECURSIVE int(_)
int(digits) ==
    IF digits = <<>> THEN 0
    ELSE 10 * int(SubSeq(digits, 1, Len(digits) - 1)) + digits[Len(digits)]

\* int(item.get("statistics", {}).get("viewCount", 0))
ViewCountOf(entry) ==
    IF entry.viewCount = <<>> THEN 0 ELSE int(entry.viewCount)

\* response.get("items", []) of videos().list(id=",".join(chunk))
ResponseItems(chunk, st) ==
    SelectSeq([i \in 1..Len(chunk) |-> [id |-> chunk[i], entry |-> st[chunk[i]]]],
              LAMBDA it : it.entry.item)

\* for item in response.get("items", []): stats[vid] = view_count
\* (a later item of an id overwrites an earlier one)
MergeStats(stats, items) ==
    LET ids == {items[i].id : i \in 1..Len(items)}
        last(v) == CHOOSE i \in 1..Len(items) :
                       /\ items[i].id = v
                       /\ \A j \in (i + 1)..Len(items) : items[j].id # v
    IN  [v \in DOMAIN stats \cup ids |->
            IF v \in ids THEN ViewCountOf(items[last(v)].entry) ELSE stats[v]]

\* video_ids[i : i + 50]
Slice(s, lo, hi) == SubSeq(s, lo + 1, Min(hi, Len(s)))

\* range(0, len(video_ids), 50)
RangeStarts(n) ==
    LET count == Cardinality({i \in 0..(n - 1) : i % ChunkSize = 0})
    IN  [j \in 1..count |-> (j - 1) * ChunkSize]

ChunksStep51(video_ids) ==
    LET starts == RangeStarts(Len(video_ids))
    IN  [j \in 1..Len(starts) |-> Slice(video_ids, starts[j], starts[j] + ChunkSize + 1)]

\* chunks = [video_ids[i : i + 50] for i in range(0, len(video_ids), 50)]
Chunks(video_ids) ==
    LET starts == RangeStarts(Len(video_ids))
    IN  [j \in 1..Len(starts) |-> Slice(video_ids, starts[j], starts[j] + ChunkSize)]

EmptyStats == [v \in {} |-> 0]


(***************************************************************************)
(* fetch_highlights: the accumulation loop and the view attachment.        *)
(***************************************************************************)
RECURSIVE AddVideosNoSeenCheck(_, _)
AddVideosNoSeenCheck(acc, videos) ==
    IF videos = <<>> THEN acc
    ELSE AddVideosNoSeenCheck(
             [all_videos |-> Append(acc.all_videos, videos[1]),
              seen_ids |-> acc.seen_ids \cup {videos[1].video_id}],
             Tail(videos))

RECURSIVE AddVideosLastWins(_, _)
AddVideosLastWins(acc, videos) ==
    IF videos = <<>> THEN acc
    ELSE LET v == videos[1]
         IN  AddVideosLastWins(
                 IF v.video_id \notin acc.seen_ids
                 THEN [all_videos |-> Append(acc.all_videos, v),
                       seen_ids |-> acc.seen_ids \cup {v.video_id}]
                 ELSE [all_videos |->
                           [i \in 1..Len(acc.all_videos) |->
                               IF acc.all_videos[i].video_id = v.video_id
                               THEN v ELSE acc.all_videos[i]],
                       seen_ids |-> acc.seen_ids],
                 Tail(videos))

\* for v in videos: if vid not in seen_ids: seen_ids.add(vid); all_videos.append(v)
RECURSIVE AddVideos(_, _)
AddVideos(acc, videos) ==
    IF videos = <<>> THEN acc
    ELSE LET v == videos[1]
         IN  AddVideos(
                 IF v.video_id \notin acc.seen_ids
                 THEN [all_videos |-> Append(acc.all_videos, v),
                       seen_ids |-> acc.seen_ids \cup {v.video_id}]
                 ELSE acc,
                 Tail(videos))

DefaultViewsMinusOne == 0 - 1

\* the default of stats.get(v["video_id"], 0)
DefaultViews == 0

\* for v in all_videos: v["views"] = stats.get(v["video_id"], 0)
AttachViews(videos, stats) ==
    [i \in 1..Len(videos) |->
        [video_id |-> videos[i].video_id,
         title |-> videos[i].title,
         channel_title |-> videos[i].channel_title,
         published_at |-> videos[i].published_at,
         views |-> IF videos[i].video_id \in DOMAIN stats
                   THEN stats[videos[i].video_id]
                   ELSE DefaultViews]]

\* [v["video_id"] for v in all_videos]
IdsOf(videos) == [i \in 1..Len(videos) |-> videos[i].video_id]

(***************************************************************************)
(* update_database: the Highlight row and session.merge on the primary key.*)
(* The table is the sequence of its rows in insertion order; the session   *)
(* works on its own copy, which commit makes durable and rollback drops.   *)
(***************************************************************************)
\* Highlight(video_id=rec["video_id"], title=rec["title"], ...)
Highlight(rec) ==
    [video_id |-> rec.video_id,
     title |-> rec.title,
     channel_title |-> rec.channel_title,
     published_at |-> rec.published_at,
     views |-> rec.views]

MergeInsertOnly(table, obj) == Append(table, obj)

MergeKeepExisting(table, obj) ==
    IF \E i \in 1..Len(table) : table[i].video_id = obj.video_id
    THEN table
    ELSE Append(table, obj)

\* session.merge(obj): load the row with obj's primary key and copy obj's
\* attributes onto it, or add obj as a new row
Merge(table, obj) ==
    IF \E i \in 1..Len(table) : table[i].video_id = obj.video_id
    THEN [i \in 1..Len(table) |->
             IF table[i].video_id = obj.video_id THEN obj ELSE table[i]]
    ELSE Append(table, obj)

\* the committed batch entered, record by record, in the upsert log
RECURSIVE RecordUpserts(_, _)
RecordUpserts(log, recs) ==
    IF recs = <<>> THEN log
    ELSE LET row == Highlight(recs[1])
         IN  RecordUpserts([v \in DOMAIN log \cup {row.video_id} |->
                               IF v = row.video_id THEN row ELSE log[v]],
                           Tail(recs))

RollbackKeepsPending(durable, pending) == pending

\* session.rollback(): the durable table is what it was before the session
Rollback(durable, pending) == durable

(***************************************************************************)
(* State.                                                                  *)
(***************************************************************************)
VARIABLES
    store,          \* the durable highlights table
    pc,             \* position of the run
    term,           \* index of the keyword the loop is at
    all_videos,     \* fetch_highlights: candidates accumulated so far
    seen_ids,       \* fetch_highlights: ids already accumulated
    video_ids,      \* fetch_statistics: its argument
    chunks,         \* fetch_statistics: the chunk list
    ci,             \* fetch_statistics: index of the chunk the loop is at
    stats,          \* fetch_statistics: the mapping built so far
    highlights,     \* the records fetch_highlights returned
    session,        \* update_database: the table as the open session sees it
    mi,             \* update_database: index of the record the loop is at
    outcome,        \* how the run ended
    events,         \* API-level calls of the run, in order
    calls,          \* id lists sent to videos().list by the run, in order
    store0,         \* the table when the run started
    search_resp,    \* fixed upstream: the response to each keyword
    statistics,     \* fixed upstream: the statistics entry of each id
    run,            \* number of the run against the fixed upstream
    store1,         \* the table the first run against the fixed upstream committed
    last_upserted   \* per video_id, the row of the last committed upsert of it

vars == <<store, pc, term, all_videos, seen_ids, video_ids, chunks, ci, stats,
          highlights, session, mi, outcome, events, calls, store0,
          search_resp, statistics, run, store1, last_upserted>>

fetchVars == <<term, all_videos, seen_ids>>
statVars == <<video_ids, chunks, ci, stats, calls>>
dbVars == <<session, mi>>
upstreamVars == <<search_resp, statistics, run, store1, last_upserted>>

\* the locals of a run before fetch_highlights has assigned them
FreshRun ==
    /\ term = 1
    /\ all_videos = <<>>
    /\ seen_ids = {}
    /\ video_ids = <<>>
    /\ chunks = <<>>
    /\ ci = 1
    /\ stats = EmptyStats
    /\ highlights = <<>>
    /\ session = <<>>
    /\ mi = 1
    /\ outcome = "running"
    /\ events = <<>>
    /\ calls = <<>>

\* the same locals in a newly launched process
ResetRun ==
    /\ term' = 1
    /\ all_videos' = <<>>
    /\ seen_ids' = {}
    /\ video_ids' = <<>>
    /\ chunks' = <<>>
    /\ ci' = 1
    /\ stats' = EmptyStats
    /\ highlights' = <<>>
    /\ session' = <<>>
    /\ mi' = 1
    /\ outcome' = "running"
    /\ events' = <<>>
    /\ calls' = <<>>

\* the scheduler's state when the process is launched on an empty database,
\* the upstream answering each request as it comes
Init ==
    /\ store = <<>>
    /\ pc = "main"
    /\ FreshRun
    /\ store0 = <<>>
    /\ search_resp = <<>>
    /\ statistics = <<>>
    /\ run = 1
    /\ store1 = [committed |-> FALSE, table |-> <<>>]
    /\ last_upserted = [v \in {} |-> <<>>]

(***************************************************************************)
(* fetch_highlights                                                        *)
(***************************************************************************)
\* __main__ calls fetch_highlights with YOUTUBE_API_KEY unset: SystemExit
MissingApiKey ==
    /\ pc = "main"
    /\ pc' = "crashed"
    /\ outcome' = "SystemExit"
    /\ UNCHANGED <<store, fetchVars, statVars, highlights, dbVars, events,
                   store0, upstreamVars>>

\* __main__ calls fetch_highlights: client built, keywords loaded, lists empty
EnterFetchHighlights ==
    /\ pc = "main"
    /\ pc' = "search"
    /\ term' = 1
    /\ all_videos' = <<>>
    /\ seen_ids' = {}
    /\ store0' = store
    /\ UNCHANGED <<store, statVars, highlights, dbVars, outcome, events,
                   upstreamVars>>

\* one iteration of "for term in keywords" whose search returns a page
SearchOk(resp) ==
    /\ pc = "search"
    /\ term <= Len(keywords)
    /\ resp.kind = "ok"
    /\ ~SearchRaisesValueError(resp.items)
    /\ LET acc == AddVideos([all_videos |-> all_videos, seen_ids |-> seen_ids],
                            search_videos(resp.items))
       IN  /\ all_videos' = acc.all_videos
           /\ seen_ids' = acc.seen_ids
    /\ term' = term + 1
    /\ events' = Append(events, <<"search", keywords[term]>>)
    /\ UNCHANGED <<store, pc, statVars, highlights, dbVars, outcome, store0,
                   upstreamVars>>

SearchHttpErrorBreaks(resp) ==
    /\ pc = "search"
    /\ term <= Len(keywords)
    /\ resp.kind = "HttpError"
    /\ term' = Len(keywords) + 1
    /\ events' = Append(events, <<"search", keywords[term]>>)
    /\ UNCHANGED <<store, pc, all_videos, seen_ids, statVars, highlights,
                   dbVars, outcome, store0, upstreamVars>>

\* one iteration whose search raises HttpError: print and continue
SearchHttpError(resp) ==
    /\ pc = "search"
    /\ term <= Len(keywords)
    /\ resp.kind = "HttpError"
    /\ term' = term + 1
    /\ events' = Append(events, <<"search", keywords[term]>>)
    /\ UNCHANGED <<store, pc, all_videos, seen_ids, statVars, highlights,
                   dbVars, outcome, store0, upstreamVars>>

\* one iteration whose search_videos raises ValueError (strptime): not caught
SearchValueError(resp) ==
    /\ pc = "search"
    /\ term <= Len(keywords)
    /\ resp.kind = "ok"
    /\ SearchRaisesValueError(resp.items)
    /\ pc' = "crashed"
    /\ outcome' = "ValueError"
    /\ events' = Append(events, <<"search", keywords[term]>>)
    /\ UNCHANGED <<store, fetchVars, statVars, highlights, dbVars, store0,
                   upstreamVars>>

LoopDoneAfterFirst == term > 1

\* "for term in keywords" is exhausted
LoopDone == term > Len(keywords)

\* stats = fetch_statistics(youtube, [v["video_id"] for v in all_videos])
CallFetchStatistics ==
    /\ pc = "search"
    /\ LoopDone
    /\ pc' = "fetch_statistics"
    /\ video_ids' = IdsOf(all_videos)
    /\ events' = Append(events, <<"fetch_statistics", Len(all_videos)>>)
    /\ UNCHANGED <<store, fetchVars, chunks, ci, stats, calls, highlights,
                   dbVars, outcome, store0, upstreamVars>>

(***************************************************************************)
(* fetch_statistics                                                        *)
(***************************************************************************)
\* if not video_ids: return {}
StatsEmptyInput ==
    /\ pc = "fetch_statistics"
    /\ video_ids = <<>>
    /\ stats' = EmptyStats
    /\ pc' = "attach"
    /\ UNCHANGED <<store, fetchVars, video_ids, chunks, ci, calls, highlights,
                   dbVars, outcome, events, store0, upstreamVars>>

\* chunks = [...]; stats = {}
StatsBuildChunks ==
    /\ pc = "fetch_statistics"
    /\ video_ids # <<>>
    /\ chunks' = Chunks(video_ids)
    /\ ci' = 1
    /\ stats' = EmptyStats
    /\ pc' = "chunks"
    /\ UNCHANGED <<store, fetchVars, video_ids, calls, highlights, dbVars,
                   outcome, events, store0, upstreamVars>>

\* one iteration of "for chunk in chunks": the call answers with the entries
\* st holds for the chunk's ids
VideosList(st) ==
    /\ pc = "chunks"
    /\ ci <= Len(chunks)
    /\ calls' = Append(calls, chunks[ci])
    /\ stats' = MergeStats(stats, ResponseItems(chunks[ci], st))
    /\ ci' = ci + 1
    /\ UNCHANGED <<store, pc, fetchVars, video_ids, chunks, highlights, dbVars,
                   outcome, events, store0, upstreamVars>>

VideosListFailsSwallowed ==
    /\ pc = "chunks"
    /\ ci <= Len(chunks)
    /\ calls' = Append(calls, chunks[ci])
    /\ outcome' = "HttpError"
    /\ ci' = ci + 1
    /\ UNCHANGED <<store, pc, fetchVars, video_ids, chunks, stats, highlights,
                   dbVars, events, store0, upstreamVars>>

\* one iteration whose request.execute() raises: nothing catches it, so it
\* leaves fetch_statistics, fetch_highlights and __main__
VideosListFails ==
    /\ pc = "chunks"
    /\ ci <= Len(chunks)
    /\ calls' = Append(calls, chunks[ci])
    /\ pc' = "crashed"
    /\ outcome' = "HttpError"
    /\ UNCHANGED <<store, fetchVars, video_ids, chunks, ci, stats, highlights,
                   dbVars, events, store0, upstreamVars>>

\* return stats
StatsReturn ==
    /\ pc = "chunks"
    /\ ci > Len(chunks)
    /\ pc' = "attach"
    /\ UNCHANGED <<store, fetchVars, statVars, highlights, dbVars, outcome,
                   events, store0, upstreamVars>>

\* the views are attached and fetch_highlights returns all_videos
AttachAndReturn ==
    /\ pc = "attach"
    /\ highlights' = AttachViews(all_videos, stats)
    /\ pc' = "update_database"
    /\ UNCHANGED <<store, fetchVars, statVars, dbVars, outcome, events, store0,
                   upstreamVars>>

(***************************************************************************)
(* update_database                                                         *)
(***************************************************************************)
\* init_db(); recs = list(records); session = SessionLocal()
OpenSession ==
    /\ pc = "update_database"
    /\ session' = store
    /\ mi' = 1
    /\ pc' = "merge"
    /\ events' = Append(events, <<"update_database", Len(highlights)>>)
    /\ UNCHANGED <<store, fetchVars, statVars, highlights, outcome, store0,
                   upstreamVars>>

\* one iteration of "for rec in recs": session.merge(Highlight(...))
MergeRecord ==
    /\ pc = "merge"
    /\ mi <= Len(highlights)
    /\ session' = Merge(session, Highlight(highlights[mi]))
    /\ mi' = mi + 1
    /\ UNCHANGED <<store, pc, fetchVars, statVars, highlights, outcome, events,
                   store0, upstreamVars>>

\* one iteration whose merge raises SQLAlchemyError: rollback, report, close
MergeFails ==
    /\ pc = "merge"
    /\ mi <= Len(highlights)
    /\ store' = Rollback(store, session)
    /\ session' = <<>>
    /\ outcome' = "rolled_back"
    /\ pc' = "done"
    /\ UNCHANGED <<fetchVars, statVars, highlights, mi, events, store0,
                   upstreamVars>>

\* session.commit() after the loop; close
Commit ==
    /\ pc = "merge"
    /\ mi > Len(highlights)
    /\ store' = session
    /\ session' = <<>>
    /\ outcome' = "committed"
    /\ pc' = "done"
    /\ store1' = IF run = 1 THEN [committed |-> TRUE, table |-> session]
                  ELSE store1
    /\ last_upserted' = RecordUpserts(last_upserted, highlights)
    /\ UNCHANGED <<fetchVars, statVars, highlights, mi, events, store0,
                   search_resp, statistics, run>>

\* session.commit() raises SQLAlchemyError: rollback, report, close
CommitFails ==
    /\ pc = "merge"
    /\ mi > Len(highlights)
    /\ store' = Rollback(store, session)
    /\ session' = <<>>
    /\ outcome' = "rolled_back"
    /\ pc' = "done"
    /\ UNCHANGED <<fetchVars, statVars, highlights, mi, events, store0,
                   upstreamVars>>

(***************************************************************************)
(* The scheduler ("run regularly (e.g., hourly)") launches the script      *)
(* again once the previous process has ended.                              *)
(***************************************************************************)
Relaunch ==
    /\ pc \in {"done", "crashed"}
    /\ pc' = "main"
    /\ ResetRun
    /\ UNCHANGED <<store, store0, upstreamVars>>

\* the second launch, after a first run that completed, against the upstream
\* that run saw
RelaunchSameUpstream ==
    /\ pc = "done"
    /\ outcome = "committed"
    /\ run = 1
    /\ run' = run + 1
    /\ pc' = "main"
    /\ ResetRun
    /\ UNCHANGED <<store, store0, search_resp, statistics, store1,
                   last_upserted>>

(***************************************************************************)
(* Specifications.                                                         *)
(***************************************************************************)
\* the pipeline run again and again, the upstream free at every request
Next ==
    \/ MissingApiKey
    \/ EnterFetchHighlights
    \/ \E resp \in SearchResponses(keywords[Min(term, Len(keywords))]) : SearchOk(resp)
    \/ \E resp \in SearchResponses(keywords[Min(term, Len(keywords))]) : SearchHttpError(resp)
    \/ \E resp \in SearchResponses(keywords[Min(term, Len(keywords))]) : SearchValueError(resp)
    \/ CallFetchStatistics
    \/ StatsEmptyInput
    \/ StatsBuildChunks
    \/ \E st \in [VideoIds -> StatEntries] : VideosList(st)
    \/ VideosListFails
    \/ StatsReturn
    \/ AttachAndReturn
    \/ OpenSession
    \/ MergeRecord
    \/ MergeFails
    \/ Commit
    \/ CommitFails
    \/ Relaunch

Spec == Init /\ [][Next]_vars

(***************************************************************************)
(* The pipeline run twice against one fixed upstream: the response to each *)
(* keyword and the statistics entry of each id are drawn once.  The table  *)
(* starts with rows earlier runs left behind.                              *)
(***************************************************************************)
StaleRow(v) ==
    [video_id |-> v,
     title |-> <<"title", v, 0>>,
     channel_title |-> <<"channel", 0>>,
     published_at |-> strptime(<<2023, 12, 31, 23, 59, 59>>),
     views |-> 7]

InitialStores == {<<>>, <<StaleRow("a")>>}

InitTwice ==
    /\ store \in InitialStores
    /\ pc = "main"
    /\ FreshRun
    /\ store0 = store
    /\ search_resp \in [1..NumKeywords -> UNION {SearchResponses(keywords[k]) : k \in 1..NumKeywords}]
    /\ \A k \in 1..NumKeywords : search_resp[k] \in SearchResponses(keywords[k])
    /\ statistics \in [VideoIds -> StatEntries]
    /\ run = 1
    /\ store1 = [committed |-> FALSE, table |-> <<>>]
    /\ last_upserted = [v \in {store[i].video_id : i \in 1..Len(store)} |->
                           CHOOSE r \in {store[i] : i \in 1..Len(store)} : r.video_id = v]

NextTwice ==
    \/ EnterFetchHighlights
    \/ term <= Len(keywords) /\ SearchOk(search_resp[term])
    \/ term <= Len(keywords) /\ SearchHttpError(search_resp[term])
    \/ term <= Len(keywords) /\ SearchValueError(search_resp[term])
    \/ CallFetchStatistics
    \/ StatsEmptyInput
    \/ StatsBuildChunks
    \/ VideosList(statistics)
    \/ VideosListFails
    \/ StatsReturn
    \/ AttachAndReturn
    \/ OpenSession
    \/ MergeRecord
    \/ MergeFails
    \/ Commit
    \/ CommitFails
    \/ RelaunchSameUpstream

SpecTwice == InitTwice /\ [][NextTwice]_vars

(***************************************************************************)
(* The keyword loop of fetch_highlights on its own, up to the call of      *)
(* fetch_statistics, against fixed search responses.                       *)
(***************************************************************************)
InitFetch ==
    /\ InitTwice
    /\ store = <<>>
    /\ \A v \in VideoIds : statistics[v] = [item |-> FALSE, viewCount |-> <<>>]

NextFetch ==
    \/ EnterFetchHighlights
    \/ term <= Len(keywords) /\ SearchOk(search_resp[term])
    \/ term <= Len(keywords) /\ SearchHttpError(search_resp[term])
    \/ term <= Len(keywords) /\ SearchValueError(search_resp[term])
    \/ CallFetchStatistics

SpecFetch == InitFetch /\ [][NextFetch]_vars

(***************************************************************************)
(* fetch_statistics on its own, called with n distinct ids, 0 <= n <=      *)
(* MaxStatIds, against an upstream that knows all, some or none of them.   *)
(***************************************************************************)
StatWorlds ==
    {[i \in 1..MaxStatIds |-> [item |-> TRUE, viewCount |-> <<1, 0>>]],
     [i \in 1..MaxStatIds |-> IF i % 3 = 0
                              THEN [item |-> FALSE, viewCount |-> <<>>]
                              ELSE [item |-> TRUE, viewCount |-> <<2, 5>>]],
     [i \in 1..MaxStatIds |-> [item |-> FALSE, viewCount |-> <<>>]]}

InitStats ==
    /\ store = <<>>
    /\ pc = "fetch_statistics"
    /\ term = 1
    /\ all_videos = <<>>
    /\ seen_ids = {}
    /\ \E n \in 0..MaxStatIds : video_ids = [i \in 1..n |-> i]
    /\ chunks = <<>>
    /\ ci = 1
    /\ stats = EmptyStats
    /\ highlights = <<>>
    /\ session = <<>>
    /\ mi = 1
    /\ outcome = "running"
    /\ events = <<>>
    /\ calls = <<>>
    /\ store0 = <<>>
    /\ search_resp = <<>>
    /\ statistics \in StatWorlds
    /\ run = 1
    /\ store1 = [committed |-> FALSE, table |-> <<>>]
    /\ last_upserted = [v \in {} |-> <<>>]

NextStats ==
    \/ StatsEmptyInput
    \/ StatsBuildChunks
    \/ VideosList(statistics)
    \/ VideosListFails
    \/ StatsReturn

SpecStats == InitStats /\ [][NextStats]_vars

(***************************************************************************)
(* Vocabulary of the properties.                                           *)
(***************************************************************************)
Rows(table) == {table[i] : i \in 1..Len(table)}

IdSet(recs) == {recs[i].video_id : i \in 1..Len(recs)}

NoRepeats(ids) ==
    \A i, j \in 1..Len(ids) : i # j => ids[i] # ids[j]

CeilDiv(n, d) == (n + d - 1) \div d

RECURSIVE Flatten(_)
Flatten(ss) == IF ss = <<>> THEN <<>> ELSE ss[1] \o Flatten(Tail(ss))

\* s with every occurrence of a video_id after its first one removed
RECURSIVE FirstOccurrences(_)
FirstOccurrences(s) ==
    IF s = <<>> THEN <<>>
    ELSE LET n == Len(s)
             front == FirstOccurrences(SubSeq(s, 1, n - 1))
         IN  IF \E i \in 1..(n - 1) : s[i].video_id = s[n].video_id
             THEN front
             ELSE Append(front, s[n])

OkKeywords == {k \in 1..NumKeywords : search_resp[k].kind = "ok"}

\* the items of the successful searches of keywords 1..k, in keyword order
RECURSIVE OkItems(_)
OkItems(k) ==
    IF k = 0 THEN <<>>
    ELSE OkItems(k - 1) \o (IF k \in OkKeywords THEN search_resp[k].items ELSE <<>>)

RawIds(items) == {items[i].id.videoId : i \in 1..Len(items)}

LoopCompleted ==
    \/ pc = "fetch_statistics"
    \/ pc = "search" /\ term > Len(keywords)

Returned == pc \in {"update_database", "merge", "done"}

EventKinds == {events[i][1] : i \in 1..Len(events)}

ViewsFor(v) == IF v \in DOMAIN stats THEN stats[v] ELSE 0

(***************************************************************************)
(* Properties.                                                             *)
(***************************************************************************)
\* C1 (SpecTwice): a second run against the same upstream responses leaves
\* the table with exactly the rows and field values the first run committed:
\* in no state of the second run, its end included, does the table differ
\* from the table after the first run.
Idempotence ==
    run = 2 => /\ store1.committed
               /\ store = store1.table

IdempotenceWitness ==
    /\ run = 2
    /\ pc = "done"
    /\ outcome = "committed"
    /\ Len(highlights) = 2
    /\ StaleRow("a") \notin Rows(store)
    /\ \E r \in Rows(store) : r.video_id = "a" /\ r.views = 25

\* C2 (Spec): the table never holds two rows with one video_id; its rows are
\* exactly the rows of the ids ever upserted, each equal in title,
\* channel_title, published_at and views to the record last upserted with
\* its id; a committed batch leaves the rows of other ids as they were.
UpsertOverwrite ==
    /\ NoRepeats(IdsOf(store))
    /\ IdSet(store) = DOMAIN last_upserted
    /\ \A r \in Rows(store) :
          /\ r.title = last_upserted[r.video_id].title
          /\ r.channel_title = last_upserted[r.video_id].channel_title
          /\ r.published_at = last_upserted[r.video_id].published_at
          /\ r.views = last_upserted[r.video_id].views
    /\ (pc = "done" /\ outcome = "committed") =>
          \A r \in Rows(store0) : r.video_id \notin IdSet(highlights) => r \in Rows(store)

UpsertOverwriteWitness ==
    /\ pc = "done"
    /\ outcome = "committed"
    /\ \E r0 \in Rows(store0) :
          /\ r0.views = 10
          /\ \E r \in Rows(store) :
                r.video_id = r0.video_id /\ r.views = 25 /\ r.title # r0.title
          /\ Cardinality({i \in 1..Len(store) : store[i].video_id = r0.video_id}) = 1
    /\ \E r0 \in Rows(store0) : r0.video_id \notin IdSet(highlights)

\* C3 (Spec): while update_database works on a batch the table is the table
\* from before the call, and when the call has returned the table either
\* holds every record of the batch (commit) or is the table from before the
\* call (a failure at any record or at commit): a part of the batch is never
\* visible.
BatchAtomicity ==
    /\ pc = "merge" => store = store0
    /\ pc = "done" =>
          \/ /\ outcome = "committed"
             /\ Rows(store) =
                   {r \in Rows(store0) : r.video_id \notin IdSet(highlights)}
                       \cup {Highlight(highlights[i]) : i \in 1..Len(highlights)}
          \/ /\ outcome = "rolled_back"
             /\ store = store0

BatchAtomicityWitness ==
    /\ pc = "done"
    /\ outcome = "rolled_back"
    /\ Len(highlights) = 2
    /\ mi = 2
    /\ Highlight(highlights[1]) \notin Rows(store0)
    /\ store0 # <<>>

\* C4 (SpecFetch): the id list passed to fetch_statistics never holds a
\* video_id twice, whatever the searches returned.
DedupInvariant == NoRepeats(video_ids)

DedupInvariantWitness ==
    /\ pc = "fetch_statistics"
    /\ Len(video_ids) = 2
    /\ \E k \in OkKeywords :
          Len(search_resp[k].items) = 2 /\ Cardinality(RawIds(search_resp[k].items)) = 1
    /\ \E k1, k2 \in OkKeywords :
          k1 # k2 /\ RawIds(search_resp[k1].items) \cap RawIds(search_resp[k2].items) # {}

\* C5 (SpecStats): when fetch_statistics returns for N ids with no upstream
\* failure, it has made exactly ceil(N / 50) upstream calls, each with 1 to
\* 50 ids, the calls together carrying every input id exactly once and in
\* order; for N = 0 it has made no call and returns the empty mapping.
BatchSizeInvariant ==
    pc = "attach" =>
        /\ Len(calls) = CeilDiv(Len(video_ids), 50)
        /\ \A c \in 1..Len(calls) : Len(calls[c]) >= 1 /\ Len(calls[c]) <= 50
        /\ Flatten(calls) = video_ids
        /\ video_ids = <<>> => (calls = <<>> /\ stats = EmptyStats)

BatchSizeInvariantWitness ==
    /\ pc = "attach"
    /\ Len(video_ids) = 101
    /\ Len(calls) = 3
    /\ Len(calls[3]) = 1
    /\ Cardinality(DOMAIN stats) = 68

\* C6 (Spec): every record fetch_highlights returns has the view count of
\* its entry in the mapping fetch_statistics returned, and 0 if it has no
\* entry; no view count is negative; a committed run persists those counts.
DefaultViewPolicy ==
    /\ Returned =>
          \A i \in 1..Len(highlights) :
              /\ highlights[i].views = ViewsFor(highlights[i].video_id)
              /\ highlights[i].views >= 0
    /\ (pc = "done" /\ outcome = "committed") =>
          \A i \in 1..Len(highlights) :
              \E r \in Rows(store) :
                  /\ r.video_id = highlights[i].video_id
                  /\ r.views = ViewsFor(r.video_id)
                  /\ r.views >= 0

DefaultViewPolicyWitness ==
    /\ pc = "done"
    /\ outcome = "committed"
    /\ \E r \in Rows(store) :
          /\ r.video_id \in IdSet(highlights)
          /\ r.video_id \notin DOMAIN stats
          /\ r.views = 0
          /\ \E r0 \in Rows(store0) : r0.video_id = r.video_id /\ r0.views = 10
    /\ \E r \in Rows(store) :
          r.video_id \in IdSet(highlights) /\ r.video_id \in DOMAIN stats /\ r.views = 25

\* C7 (SpecFetch): a search that raises HttpError never ends the run and
\* never stops the loop: every keyword before the loop's position has been
\* searched, and when the loop is over the candidates' ids are exactly the
\* ids returned by the keywords whose search did not fail.
PartialFailureContainment ==
    /\ pc = "crashed" => outcome = "ValueError"
    /\ pc = "search" =>
          events = [k \in 1..(term - 1) |-> <<"search", keywords[k]>>]
    /\ LoopCompleted =>
          /\ Len(events) >= Len(keywords)
          /\ IdSet(all_videos) = UNION {RawIds(search_resp[k].items) : k \in OkKeywords}

PartialFailureContainmentWitness ==
    /\ pc = "fetch_statistics"
    /\ \E k \in 1..(NumKeywords - 1) :
          /\ search_resp[k].kind = "HttpError"
          /\ search_resp[k + 1].kind = "ok"
          /\ IdSet(all_videos) = RawIds(search_resp[k + 1].items)
    /\ Len(all_videos) = 2

FirstKeywordWins ==
    LoopCompleted =>
        all_videos = FirstOccurrences(search_videos(OkItems(NumKeywords)))

FirstKeywordWinsWitness ==
    /\ pc = "fetch_statistics"
    /\ Len(all_videos) = 2
    /\ \E k1, k2 \in OkKeywords :
          /\ k1 < k2
          /\ \E v \in RawIds(search_resp[k1].items) \cap RawIds(search_resp[k2].items) :
                /\ search_resp[k2].items[1].id.videoId = v
                /\ all_videos[2].video_id = v
                /\ all_videos[2].title = <<"title", v, keywords[k1]>>

\* C10 (Spec): a run calls fetch_statistics at most once; the call comes
\* after the search of every keyword, in keyword order, and no search and no
\* upstream statistics request is made outside that order; a run that has
\* got past the statistics step has made the call exactly once.
SingleStatisticsBatch ==
    LET at == {i \in 1..Len(events) : events[i][1] = "fetch_statistics"}
    IN  /\ Cardinality(at) <= 1
        /\ \A i \in at :
              /\ i = Len(keywords) + 1
              /\ \A k \in 1..Len(keywords) : events[k] = <<"search", keywords[k]>>
              /\ \A j \in (i + 1)..Len(events) : events[j][1] # "search"
        /\ calls # <<>> => at # {}
        /\ pc \in {"chunks", "attach", "update_database", "merge", "done"} => at # {}

SingleStatisticsBatchWitness ==
    /\ pc = "done"
    /\ Len(events) = Len(keywords) + 2
    /\ events[Len(keywords) + 1] = <<"fetch_statistics", 2>>
    /\ Len(calls) = 1

=============================================================================
